---- MODULE Spec2Model ----
(***************************************************************************)
(* Model of plugin/src/id_check.cc: the id_check plugin's hot-swappable    *)
(* configuration.  The state is the three globals (Plugin_Config,          *)
(* Plugin_Config_Mutex, Plugin_Reloading), the Config objects on the heap, *)
(* and the position of every thread that runs one of the plugin's          *)
(* functions: readers in scoped_plugin_config / Config::contains, message  *)
(* handlers in CB_Msg, worker tasks in Task_ConfigReload, and the shutdown *)
(* hook CB_Shutdown.  The text source the plugin is configured with is     *)
(* part of the environment and changes at any time.                        *)
(***************************************************************************)
EXTENDS Integers, Sequences, FiniteSets, TLC

(* ------------------------------ bounds --------------------------------- *)
\* Number of plugin messages the host delivers in one run.
MaxMsgs == 2
\* Threads that may run CB_Msg at the same time.
NumMsgThreads == 2
\* Concurrent reader threads.
NumReaders == 1
\* Worker slots of the host's task pool (ts::PerformAsTask).
NumTasks == 2

(* ------------------------------ text ----------------------------------- *)
\* A text is a sequence of one-character strings.
UpperCase == <<"A","B","C","D","E","F","G","H","I","J","K","L","M",
               "N","O","P","Q","R","S","T","U","V","W","X","Y","Z">>

LowerCase == <<"a","b","c","d","e","f","g","h","i","j","k","l","m",
               "n","o","p","q","r","s","t","u","v","w","x","y","z">>

\* The lower-case letter of every upper-case letter.
LowerOf == [c \in {UpperCase[i] : i \in 1..26} |->
              LowerCase[CHOOSE i \in 1..26 : UpperCase[i] = c]]

\* tolower(3)
ToLower(c) == IF c \in DOMAIN LowerOf THEN LowerOf[c] ELSE c

\* TextView::starts_with_nocase
starts_with_nocase(text, prefix) ==
  /\ Len(text) >= Len(prefix)
  /\ \A i \in 1..Len(prefix) : ToLower(text[i]) = ToLower(prefix[i])

\* TextView::remove_prefix(n)
remove_prefix(text, n) ==
  IF n >= Len(text) THEN <<>> ELSE SubSeq(text, n + 1, Len(text))

\* strcasecmp(TextView, TextView): 0 exactly when the two views are equal
\* without regard to case (a shorter view that is a prefix compares unequal).
strcasecmp(a, b) ==
  IF Len(a) = Len(b) /\ \A i \in 1..Len(a) : ToLower(a[i]) = ToLower(b[i])
    THEN 0
    ELSE 1

\* "id_check."
PLUGIN_MSG_PREFIX == <<"i","d","_","c","h","e","c","k",".">>

\* "reload"
RELOAD_TAG == <<"r","e","l","o","a","d">>

\* Faulty variant of IsReloadMsg: what follows the prefix need only start
\* with the reload tag.
Mutant_IsReloadMsg_prefix(tag) ==
  /\ starts_with_nocase(tag, PLUGIN_MSG_PREFIX)
  /\ starts_with_nocase(remove_prefix(tag, Len(PLUGIN_MSG_PREFIX)), RELOAD_TAG)

\* The test CB_Msg applies to a message tag before it touches the flag.
IsReloadMsg(tag) ==
  /\ starts_with_nocase(tag, PLUGIN_MSG_PREFIX)
  /\ strcasecmp(remove_prefix(tag, Len(PLUGIN_MSG_PREFIX)), RELOAD_TAG) = 0

\* Message tags the host delivers.
Tags ==
  { <<"i","d","_","c","h","e","c","k",".","r","e","l","o","a","d">>,
    <<"I","D","_","C","h","e","c","k",".","R","E","L","O","A","D">>,
    <<"i","d","_","c","h","e","c","k",".","r","e","l","o","a","d","x">>,
    <<"i","d","_","c","h","e","c","k",".","r","e","l","o">>,
    <<"o","t","h","e","r",".","r","e","l","o","a","d">>,
    <<"r","e","l","o","a","d">> }

(* --------------------------- Config ------------------------------------- *)
\* The null shared_ptr; Config objects are numbered from 1.
NULL == 0

\* The configured source is a record: readable tells whether
\* swoc::file::load succeeds on it, text is what it then returns.
Unreadable == [readable |-> FALSE, text |-> <<>>]

File(text) == [readable |-> TRUE, text |-> text]

\* A default-constructed Config (std::make_shared<Config>()): no identifiers;
\* built records whether Config::load has returned successfully on the object.
NewConfig == [_data |-> <<>>, built |-> FALSE, alive |-> TRUE]

\* What is left of a Config when its last shared_ptr is gone.
Destroyed == [_data |-> <<>>, built |-> FALSE, alive |-> FALSE]

\* is_delim of Config::load: isspace(c) || ',' == c
is_delim(c) == c \in {" ", "\t", "\n", "\r", ","}

\* TextView::ltrim_if(is_delim)
RECURSIVE ltrim_if(_)
ltrim_if(text) ==
  IF text # <<>> /\ is_delim(Head(text)) THEN ltrim_if(Tail(text)) ELSE text

\* Length of the longest prefix of text holding no delimiter.
RECURSIVE PrefixLen(_)
PrefixLen(text) ==
  IF text = <<>> \/ is_delim(Head(text)) THEN 0 ELSE 1 + PrefixLen(Tail(text))

\* TextView::take_prefix_if(is_delim): the prefix before the first delimiter
\* is returned; it and the delimiter are removed from the view.
take_prefix_if(text) ==
  LET n == PrefixLen(text)
  IN  [token |-> SubSeq(text, 1, n), rest |-> remove_prefix(text, n + 1)]

Digits == <<"0","1","2","3","4","5","6","7","8","9">>

\* swoc::svtoi_convert: the value of a digit character, -1 for any other.
DigitVal(c) ==
  IF \E i \in 1..10 : Digits[i] = c
    THEN (CHOOSE i \in 1..10 : Digits[i] = c) - 1
    ELSE IF \E i \in 1..26 : LowerCase[i] = ToLower(c)
      THEN 9 + (CHOOSE i \in 1..26 : LowerCase[i] = ToLower(c))
      ELSE -1

\* swoc::svto_radix<N>: consumes the leading digits valid in the radix.
\* (The identifiers of the sources modelled here are far below 2^64.)
RECURSIVE svto_radix(_, _, _, _)
svto_radix(text, radix, acc, used) ==
  IF text # <<>> /\ DigitVal(Head(text)) >= 0 /\ DigitVal(Head(text)) < radix
    THEN svto_radix(Tail(text), radix, acc * radix + DigitVal(Head(text)), used + 1)
    ELSE [n |-> acc, used |-> used]

\* swoc::svtou(token, &parsed) with base 0: the base is taken from the
\* prefix ("0x" hexadecimal, "0b" binary, "0" octal, otherwise decimal).
\* n is the value, used the size of parsed.
svtou(token) ==
  IF token = <<>> THEN [n |-> 0, used |-> 0]
  ELSE IF Head(token) # "0" THEN svto_radix(token, 10, 0, 0)
  ELSE IF Len(token) >= 2 /\ ToLower(token[2]) = "x"
    THEN svto_radix(remove_prefix(token, 2), 16, 0, 2)
  ELSE IF Len(token) >= 2 /\ ToLower(token[2]) = "b"
    THEN svto_radix(remove_prefix(token, 2), 2, 0, 2)
  ELSE svto_radix(remove_prefix(token, 1), 8, 0, 1)

\* Faulty variant of ParseTokens: the number a token starts with is kept even
\* when the token goes on after it.
RECURSIVE Mutant_ParseTokens_prefix(_, _)
Mutant_ParseTokens_prefix(text, data) ==
  LET t == take_prefix_if(ltrim_if(text))
      r == svtou(t.token)
  IN  IF t.token = <<>> THEN data
      ELSE Mutant_ParseTokens_prefix(t.rest,
                       IF r.used = 0 THEN data ELSE Append(data, r.n))

\* The while loop of Config::load: every token that parses in full is
\* appended to _data, in the order read.
RECURSIVE ParseTokens(_, _)
ParseTokens(text, data) ==
  LET t == take_prefix_if(ltrim_if(text))
      r == svtou(t.token)
  IN  IF t.token = <<>> THEN data
      ELSE ParseTokens(t.rest,
                       IF r.used # Len(t.token) THEN data ELSE Append(data, r.n))

\* Insertion of v into an ascending sequence.
RECURSIVE Insert(_, _)
Insert(v, sorted) ==
  IF sorted = <<>> THEN <<v>>
  ELSE IF v <= Head(sorted) THEN <<v>> \o sorted
  ELSE <<Head(sorted)>> \o Insert(v, Tail(sorted))

\* Faulty variant of Sort: _data is left in the order read.
Mutant_Sort_none(data) == data

\* std::sort(_data.begin(), _data.end(), std::less<uint64_t>())
RECURSIVE Sort(_)
Sort(data) == IF data = <<>> THEN <<>> ELSE Insert(Head(data), Sort(Tail(data)))

\* Config::load on object cfg with the source in state file: an error and
\* an untouched object when the source cannot be read, otherwise the parsed
\* identifiers appended to _data and _data sorted.
load(cfg, file) ==
  IF ~file.readable
    THEN [ok |-> FALSE, cfg |-> cfg]
    ELSE [ok |-> TRUE,
          cfg |-> [cfg EXCEPT !._data = Sort(ParseTokens(file.text, cfg._data)),
                              !.built = TRUE]]

\* Config::contains: the loop body changes neither left nor right, and no
\* return statement follows the loop.  With _data empty control runs off the
\* end of the function and the caller reads an indeterminate bool.  With
\* _data not empty the loop spins; as the loop has no side effect the build
\* may also drop it, which again runs off the end.
\* An outcome is a record: returns tells whether the call returns, value is
\* the bool the caller then reads.
contains(cfg, id) ==
  LET offEnd == {[returns |-> TRUE, value |-> b] : b \in BOOLEAN}
      spin   == [returns |-> FALSE, value |-> FALSE]
  IN  IF Len(cfg._data) = 0 THEN offEnd ELSE offEnd \cup {spin}

\* The identifiers a readable source lists: what a load reads from it.
Ids(file) ==
  LET d == ParseTokens(file.text, <<>>) IN {d[i] : i \in 1..Len(d)}

\* "5,10,15"
FileOld == <<"5", ",", "1", "0", ",", "1", "5">>

\* "5,10,15,20"
FileNew == <<"5", ",", "1", "0", ",", "1", "5", ",", "2", "0">>

\* States of the configured source.
Contents == {File(FileOld), File(FileNew), Unreadable}

\* Identifiers readers ask about.
QueryIds == {10, 11, 20}

(* ------------------------- Init (arguments) ----------------------------- *)
\* TextView::ltrim('-')
RECURSIVE ltrim(_, _)
ltrim(text, c) == IF text # <<>> /\ Head(text) = c THEN ltrim(Tail(text), c) ELSE text

\* TextView::prefix_at(c): the text before the first c, empty when the text
\* holds no c.
prefix_at(text, c) ==
  IF \A i \in 1..Len(text) : text[i] # c THEN <<>>
  ELSE SubSeq(text, 1, (CHOOSE i \in 1..Len(text) :
                          text[i] = c /\ \A j \in 1..(i - 1) : text[j] # c) - 1)

\* "path"
KEY_PATH == <<"p","a","t","h">>

\* The argument loop of Init, from argument idx (counted from 1) on.  The
\* result is the Errata returned (ok) and the local path at that point.  An
\* argument without an option prefix ends the loop with success.
RECURSIVE InitArgs(_, _, _)
InitArgs(argv, idx, path) ==
  IF idx > Len(argv) THEN [ok |-> TRUE, path |-> path]
  ELSE IF argv[idx] = <<>> THEN InitArgs(argv, idx + 1, path)
  ELSE IF Head(argv[idx]) # "-" THEN [ok |-> TRUE, path |-> path]
  ELSE
    LET arg    == ltrim(argv[idx], "-")
        prefix == prefix_at(arg, "=")
        inline == prefix # <<>>
        name   == IF inline THEN prefix ELSE arg
        vidx   == IF inline THEN idx ELSE idx + 1
    IN  IF arg = <<>> THEN [ok |-> FALSE, path |-> path]
        ELSE IF ~inline /\ vidx > Len(argv) THEN [ok |-> FALSE, path |-> path]
        ELSE IF starts_with_nocase(name, KEY_PATH)
          THEN InitArgs(argv, vidx + 1,
                        IF inline THEN remove_prefix(arg, Len(prefix) + 1)
                                  ELSE argv[vidx])
          ELSE [ok |-> FALSE, path |-> path]

\* Argument vectors the host may start the plugin with (argv + 1).
ArgVectors ==
  { <<>>,
    << <<"-","-","p","a","t","h","=","f">> >>,
    << <<"-","-","p","a","t","h">>, <<"f">> >>,
    << <<"-","-","p","a","t","h">> >>,
    << <<"-","x","=","1">> >>,
    << <<"-">> >>,
    << <<"f">> >> }

(* ------------------------------ state ----------------------------------- *)
Readers    == 1..NumReaders
MsgThreads == 1..NumMsgThreads
Tasks      == 1..NumTasks

\* The lock holder recorded for CB_Shutdown.
ShutdownHolder == NumTasks + 1

VARIABLES
  phase,            \* "boot" before TSPluginInit has run, "running" after
  hooks,            \* the message and shutdown hooks are registered
  source,           \* state of the configured source (environment)
  heap,             \* the Config objects made so far, by number
  srcAt,            \* history: srcAt[o] is the source when object o was made
  Plugin_Config,    \* the store slot: an object number or NULL
  Plugin_Reloading, \* the in-flight flag
  mutex,            \* Plugin_Config_Mutex: exclusive holder, shared holders
  rpc, handle,      \* readers: position, handle held
  mpc,              \* message threads: position in CB_Msg
  tpc, cfg,         \* worker slots: position in Task_ConfigReload, local cfg
  spc,              \* position of CB_Shutdown
  delivered,        \* messages delivered so far
  errlog,           \* the TSError reports, in order
  pubLog,           \* history: objects assigned to the slot by reload tasks
  answer            \* outcome of the latest Config::contains call followed

vars == <<phase, hooks, source, heap, srcAt, Plugin_Config,
          Plugin_Reloading, mutex, rpc, handle, mpc, tpc, cfg, spc,
          delivered, errlog, pubLog, answer>>

storeVars  == <<heap, srcAt, Plugin_Config, pubLog>>
readerVars == <<rpc, handle, answer>>
taskVars   == <<tpc, cfg>>
msgVars    == <<mpc, delivered>>
bootVars   == <<phase, hooks>>

\* No call of Config::contains has been followed yet.
NoAnswer == [asked |-> FALSE, id |-> 0, returns |-> FALSE, value |-> FALSE]

\* The state when the shared object is loaded: the globals as constructed.
Init ==
  /\ phase = "boot"
  /\ hooks = FALSE
  /\ source \in Contents
  /\ heap = <<>>
  /\ srcAt = <<>>
  /\ Plugin_Config = NULL
  /\ Plugin_Reloading = FALSE
  /\ mutex = [writer |-> 0, readers |-> {}]
  /\ rpc = [r \in Readers |-> "idle"]
  /\ handle = [r \in Readers |-> NULL]
  /\ mpc = [m \in MsgThreads |-> "idle"]
  /\ tpc = [t \in Tasks |-> "idle"]
  /\ cfg = [t \in Tasks |-> NULL]
  /\ spc = "idle"
  /\ delivered = 0
  /\ errlog = <<>>
  /\ pubLog = <<>>
  /\ answer = NoAnswer

(* --------------------------- shared_ptr --------------------------------- *)
\* Config::Handle is std::shared_ptr<Config>: an object lives as long as the
\* slot, a reader's handle or a task's local cfg refers to it.
Referenced(slot, handles, locals) ==
  ({slot} \cup {handles[r] : r \in Readers} \cup {locals[t] : t \in Tasks}) \ {NULL}

\* The heap after the objects nothing refers to have been destroyed.
Sweep(objects, slot, handles, locals) ==
  [o \in DOMAIN objects |->
     IF o \in Referenced(slot, handles, locals) THEN objects[o] ELSE Destroyed]

\* The history kept for the objects that are still alive.
SweepSrc(hist, slot, handles, locals) ==
  [o \in DOMAIN hist |->
     IF o \in Referenced(slot, handles, locals) THEN hist[o] ELSE Unreadable]

(* ----------------------------- start-up --------------------------------- *)
\* Errata{}: a default-constructed Errata holds no error.
NoErrata == [ok |-> TRUE]

is_ok(errata) == errata.ok

\* Init(argv), the Errata it returns: the local errata tested before the
\* argument loop is the default one (no load is made), so the result is that
\* of the argument loop.
PluginInit(argv) ==
  LET errata == NoErrata
  IN  IF ~is_ok(errata) THEN errata ELSE [ok |-> InitArgs(argv, 1, <<>>).ok]

\* TSPluginInit: calls Init, which gives the slot a fresh Config (line 143),
\* drops the Errata Init returns, and registers the message and the shutdown
\* hook whatever that Errata was.
TSPluginInit(argv) ==
  /\ phase = "boot"
  /\ heap' = Append(heap, NewConfig)
  /\ srcAt' = Append(srcAt, source)
  /\ Plugin_Config' = Len(heap) + 1
  /\ PluginInit(argv).ok \in BOOLEAN
  /\ hooks' = TRUE
  /\ phase' = "running"
  /\ UNCHANGED <<source, Plugin_Reloading, mutex, pubLog, errlog, spc>>
  /\ UNCHANGED <<readerVars, taskVars, msgVars>>

\* The environment rewrites, removes or restores the configured source.
EditSource(c) ==
  /\ c # source
  /\ source' = c
  /\ UNCHANGED <<bootVars, storeVars, Plugin_Reloading, mutex, errlog, spc>>
  /\ UNCHANGED <<readerVars, taskVars, msgVars>>

(* ------------------------------ readers --------------------------------- *)
\* scoped_plugin_config, line 52: std::shared_lock lock(Plugin_Config_Mutex)
R_lock(r) ==
  /\ phase = "running"
  /\ rpc[r] = "idle"
  /\ handle[r] = NULL
  /\ mutex.writer = 0
  /\ mutex' = [mutex EXCEPT !.readers = @ \cup {r}]
  /\ rpc' = [rpc EXCEPT ![r] = "locked"]
  /\ UNCHANGED <<handle, answer>>
  /\ UNCHANGED <<bootVars, source, storeVars, Plugin_Reloading, errlog, spc>>
  /\ UNCHANGED <<taskVars, msgVars>>

\* scoped_plugin_config, line 53: the slot is copied into the handle returned
\* and the shared lock is released.  What the reader then asks of the handle
\* (Config::contains) changes no state: it is the operator contains.
R_return(r) ==
  /\ rpc[r] = "locked"
  /\ handle' = [handle EXCEPT ![r] = Plugin_Config]
  /\ mutex' = [mutex EXCEPT !.readers = @ \ {r}]
  /\ rpc' = [rpc EXCEPT ![r] = "idle"]
  /\ UNCHANGED answer
  /\ UNCHANGED <<bootVars, source, storeVars, Plugin_Reloading, errlog, spc>>
  /\ UNCHANGED <<taskVars, msgVars>>

\* The reader is done with its handle and lets it go.
R_done(r) ==
  /\ rpc[r] = "idle"
  /\ handle[r] # NULL
  /\ handle' = [handle EXCEPT ![r] = NULL]
  /\ heap' = Sweep(heap, Plugin_Config, handle', cfg)
  /\ srcAt' = SweepSrc(srcAt, Plugin_Config, handle', cfg)
  /\ UNCHANGED <<rpc, answer, Plugin_Config, pubLog>>
  /\ UNCHANGED <<bootVars, source, Plugin_Reloading, mutex, errlog, spc>>
  /\ UNCHANGED <<taskVars, msgVars>>

(* --------------------------- reload trigger ----------------------------- *)
\* Faulty variant: a plain exchange, which succeeds whatever the flag held.
Mutant_exchange(flag) == [flag |-> TRUE, done |-> TRUE]

\* std::atomic<bool>::compare_exchange_strong(expected = false, true): the
\* new value of the flag and whether the exchange was made.
compare_exchange_strong(flag) ==
  IF flag = FALSE THEN [flag |-> TRUE, done |-> TRUE]
                  ELSE [flag |-> flag, done |-> FALSE]

\* "Reload requested while previous reload still active"
ErrBusy == "reload still active"

\* "Failed to load configuration."
ErrLoad == "failed to load"

\* Faulty variant of M_recv: a failed exchange is dropped without a report.
Mutant_M_recv_silent(m, tag) ==
  /\ hooks
  /\ mpc[m] = "idle"
  /\ delivered < MaxMsgs
  /\ delivered' = delivered + 1
  /\ IF ~IsReloadMsg(tag)
       THEN UNCHANGED <<Plugin_Reloading, mpc, errlog>>
       ELSE LET cas == compare_exchange_strong(Plugin_Reloading)
            IN  /\ Plugin_Reloading' = cas.flag
                /\ mpc' = IF cas.done THEN [mpc EXCEPT ![m] = "schedule"] ELSE mpc
                /\ errlog' = errlog
  /\ UNCHANGED <<bootVars, source, storeVars, mutex, spc>>
  /\ UNCHANGED <<readerVars, taskVars>>

\* CB_Msg up to the compare-and-set (lines 78-83) and, when the exchange
\* fails, the error report (86-88).  A tag that is not the reload tag leaves
\* everything alone.
M_recv(m, tag) ==
  /\ hooks
  /\ mpc[m] = "idle"
  /\ delivered < MaxMsgs
  /\ delivered' = delivered + 1
  /\ IF ~IsReloadMsg(tag)
       THEN UNCHANGED <<Plugin_Reloading, mpc, errlog>>
       ELSE LET cas == compare_exchange_strong(Plugin_Reloading)
            IN  /\ Plugin_Reloading' = cas.flag
                /\ IF cas.done
                     THEN /\ mpc' = [mpc EXCEPT ![m] = "schedule"]
                          /\ errlog' = errlog
                     ELSE /\ mpc' = mpc
                          /\ errlog' = Append(errlog, ErrBusy)
  /\ UNCHANGED <<bootVars, source, storeVars, mutex, spc>>
  /\ UNCHANGED <<readerVars, taskVars>>

\* CB_Msg, line 84: ts::PerformAsTask(&Task_ConfigReload) hands the task to
\* a free worker slot.
M_schedule(m) ==
  /\ mpc[m] = "schedule"
  /\ \E t \in Tasks : tpc[t] = "idle"
  /\ LET t == CHOOSE t \in Tasks : tpc[t] = "idle"
     IN  tpc' = [tpc EXCEPT ![t] = "scheduled"]
  /\ mpc' = [mpc EXCEPT ![m] = "idle"]
  /\ UNCHANGED <<cfg, delivered>>
  /\ UNCHANGED <<bootVars, source, storeVars, Plugin_Reloading, mutex, errlog, spc>>
  /\ UNCHANGED readerVars

(* ----------------------------- reload task ------------------------------ *)
\* Faulty variant of T_make: the flag is cleared as soon as the Config is
\* made, before it is published.
Mutant_T_make_clears(t) ==
  /\ tpc[t] = "scheduled"
  /\ heap' = Append(heap, NewConfig)
  /\ srcAt' = Append(srcAt, source)
  /\ cfg' = [cfg EXCEPT ![t] = Len(heap) + 1]
  /\ Plugin_Reloading' = FALSE
  /\ tpc' = [tpc EXCEPT ![t] = "lock"]
  /\ UNCHANGED <<Plugin_Config, pubLog, errlog>>
  /\ UNCHANGED <<bootVars, source, mutex, spc>>
  /\ UNCHANGED <<readerVars, msgVars>>

\* Faulty variant of T_make: the exclusive lock is taken first and the Config
\* is made under it.
Mutant_T_make_locked(t) ==
  /\ tpc[t] = "scheduled"
  /\ mutex.writer = 0
  /\ mutex.readers = {}
  /\ mutex' = [mutex EXCEPT !.writer = t]
  /\ heap' = Append(heap, NewConfig)
  /\ srcAt' = Append(srcAt, source)
  /\ cfg' = [cfg EXCEPT ![t] = Len(heap) + 1]
  /\ tpc' = [tpc EXCEPT ![t] = "assign"]
  /\ UNCHANGED <<Plugin_Config, pubLog, errlog>>
  /\ UNCHANGED <<bootVars, source, Plugin_Reloading, spc>>
  /\ UNCHANGED <<readerVars, msgVars>>

\* Task_ConfigReload, lines 60-66: a fresh Config is made, the errata is the
\* default one (no load is made), and the branch is taken on errata.is_ok().
T_make(t) ==
  LET errata == NoErrata
  IN  /\ tpc[t] = "scheduled"
      /\ heap' = Append(heap, NewConfig)
      /\ srcAt' = Append(srcAt, source)
      /\ cfg' = [cfg EXCEPT ![t] = Len(heap) + 1]
      /\ IF ~is_ok(errata)
           THEN /\ errlog' = Append(errlog, ErrLoad)
                /\ tpc' = [tpc EXCEPT ![t] = "clear"]
           ELSE /\ errlog' = errlog
                /\ tpc' = [tpc EXCEPT ![t] = "lock"]
      /\ UNCHANGED <<Plugin_Config, pubLog>>
      /\ UNCHANGED <<bootVars, source, Plugin_Reloading, mutex, spc>>
      /\ UNCHANGED <<readerVars, msgVars>>

\* Task_ConfigReload, line 67: std::unique_lock lock(Plugin_Config_Mutex)
T_lock(t) ==
  /\ tpc[t] = "lock"
  /\ mutex.writer = 0
  /\ mutex.readers = {}
  /\ mutex' = [mutex EXCEPT !.writer = t]
  /\ tpc' = [tpc EXCEPT ![t] = "assign"]
  /\ UNCHANGED cfg
  /\ UNCHANGED <<bootVars, source, storeVars, Plugin_Reloading, errlog, spc>>
  /\ UNCHANGED <<readerVars, msgVars>>

\* Faulty variant of T_publish: the flag is cleared with the assignment,
\* before the task is over.
Mutant_T_publish_clears(t) ==
  /\ tpc[t] = "assign"
  /\ Plugin_Config' = cfg[t]
  /\ Plugin_Reloading' = FALSE
  /\ pubLog' = Append(pubLog, cfg[t])
  /\ mutex' = [mutex EXCEPT !.writer = 0]
  /\ tpc' = [tpc EXCEPT ![t] = "clear"]
  /\ heap' = Sweep(heap, Plugin_Config', handle, cfg)
  /\ srcAt' = SweepSrc(srcAt, Plugin_Config', handle, cfg)
  /\ UNCHANGED cfg
  /\ UNCHANGED <<bootVars, source, errlog, spc>>
  /\ UNCHANGED <<readerVars, msgVars>>

\* Faulty variant of T_publish: the assignment does not reach the slot.
Mutant_T_publish_lost(t) ==
  /\ tpc[t] = "assign"
  /\ Plugin_Config' = Plugin_Config
  /\ pubLog' = Append(pubLog, cfg[t])
  /\ mutex' = [mutex EXCEPT !.writer = 0]
  /\ tpc' = [tpc EXCEPT ![t] = "clear"]
  /\ heap' = Sweep(heap, Plugin_Config', handle, cfg)
  /\ srcAt' = SweepSrc(srcAt, Plugin_Config', handle, cfg)
  /\ UNCHANGED cfg
  /\ UNCHANGED <<bootVars, source, Plugin_Reloading, errlog, spc>>
  /\ UNCHANGED <<readerVars, msgVars>>

\* Faulty variant of T_publish: under the lock, the task waits for the reload
\* flag to be clear before it assigns.
Mutant_T_publish_waits(t) ==
  /\ tpc[t] = "assign"
  /\ ~Plugin_Reloading
  /\ Plugin_Config' = cfg[t]
  /\ pubLog' = Append(pubLog, cfg[t])
  /\ mutex' = [mutex EXCEPT !.writer = 0]
  /\ tpc' = [tpc EXCEPT ![t] = "clear"]
  /\ heap' = Sweep(heap, Plugin_Config', handle, cfg)
  /\ srcAt' = SweepSrc(srcAt, Plugin_Config', handle, cfg)
  /\ UNCHANGED cfg
  /\ UNCHANGED <<bootVars, source, Plugin_Reloading, errlog, spc>>
  /\ UNCHANGED <<readerVars, msgVars>>

\* Task_ConfigReload, lines 68-69: Plugin_Config = cfg, and the lock is
\* released at the end of the block.
T_publish(t) ==
  /\ tpc[t] = "assign"
  /\ Plugin_Config' = cfg[t]
  /\ pubLog' = Append(pubLog, cfg[t])
  /\ mutex' = [mutex EXCEPT !.writer = 0]
  /\ tpc' = [tpc EXCEPT ![t] = "clear"]
  /\ heap' = Sweep(heap, Plugin_Config', handle, cfg)
  /\ srcAt' = SweepSrc(srcAt, Plugin_Config', handle, cfg)
  /\ UNCHANGED cfg
  /\ UNCHANGED <<bootVars, source, Plugin_Reloading, errlog, spc>>
  /\ UNCHANGED <<readerVars, msgVars>>

\* Faulty variant of T_clear: the task ends without clearing the flag.
Mutant_T_clear_keeps(t) ==
  /\ tpc[t] = "clear"
  /\ Plugin_Reloading' = Plugin_Reloading
  /\ cfg' = [cfg EXCEPT ![t] = NULL]
  /\ tpc' = [tpc EXCEPT ![t] = "idle"]
  /\ heap' = Sweep(heap, Plugin_Config, handle, cfg')
  /\ srcAt' = SweepSrc(srcAt, Plugin_Config, handle, cfg')
  /\ UNCHANGED <<Plugin_Config, pubLog>>
  /\ UNCHANGED <<bootVars, source, mutex, errlog, spc>>
  /\ UNCHANGED <<readerVars, msgVars>>

\* Task_ConfigReload, lines 70-71: Plugin_Reloading = false, and the task
\* ends, dropping its local cfg.
T_clear(t) ==
  /\ tpc[t] = "clear"
  /\ Plugin_Reloading' = FALSE
  /\ cfg' = [cfg EXCEPT ![t] = NULL]
  /\ tpc' = [tpc EXCEPT ![t] = "idle"]
  /\ heap' = Sweep(heap, Plugin_Config, handle, cfg')
  /\ srcAt' = SweepSrc(srcAt, Plugin_Config, handle, cfg')
  /\ UNCHANGED <<Plugin_Config, pubLog>>
  /\ UNCHANGED <<bootVars, source, mutex, errlog, spc>>
  /\ UNCHANGED <<readerVars, msgVars>>

(* ------------------------------ shutdown -------------------------------- *)
\* CB_Shutdown, line 100: std::unique_lock lock(Plugin_Config_Mutex)
S_lock ==
  /\ hooks
  /\ spc = "idle"
  /\ mutex.writer = 0
  /\ mutex.readers = {}
  /\ mutex' = [mutex EXCEPT !.writer = ShutdownHolder]
  /\ spc' = "reset"
  /\ UNCHANGED <<bootVars, source, storeVars, Plugin_Reloading, errlog>>
  /\ UNCHANGED <<readerVars, taskVars, msgVars>>

\* CB_Shutdown, lines 101-103: Plugin_Config.reset(), and the lock is
\* released on return.
S_reset ==
  /\ spc = "reset"
  /\ Plugin_Config' = NULL
  /\ mutex' = [mutex EXCEPT !.writer = 0]
  /\ spc' = "done"
  /\ heap' = Sweep(heap, Plugin_Config', handle, cfg)
  /\ srcAt' = SweepSrc(srcAt, Plugin_Config', handle, cfg)
  /\ UNCHANGED pubLog
  /\ UNCHANGED <<bootVars, source, Plugin_Reloading, errlog>>
  /\ UNCHANGED <<readerVars, taskVars, msgVars>>

(* --------------------------- specification ------------------------------ *)
Next ==
  \/ \E argv \in ArgVectors : TSPluginInit(argv)
  \/ \E c \in Contents : EditSource(c)
  \/ \E r \in Readers : R_lock(r)
  \/ \E r \in Readers : R_return(r)
  \/ \E r \in Readers : R_done(r)
  \/ \E m \in MsgThreads, tag \in Tags : M_recv(m, tag)
  \/ \E m \in MsgThreads : M_schedule(m)
  \/ \E t \in Tasks : T_make(t)
  \/ \E t \in Tasks : T_lock(t)
  \/ \E t \in Tasks : T_publish(t)
  \/ \E t \in Tasks : T_clear(t)
  \/ S_lock
  \/ S_reset

Spec == Init /\ [][Next]_vars

\* The threads keep running: a task that can take its next step takes it, a
\* handler that won the exchange hands its task over, and whoever holds the
\* mutex releases it.
ThreadFairness ==
  /\ \A t \in Tasks : /\ WF_vars(T_make(t))
                      /\ SF_vars(T_lock(t))
                      /\ WF_vars(T_publish(t))
                      /\ WF_vars(T_clear(t))
  /\ \A m \in MsgThreads : WF_vars(M_schedule(m))
  /\ \A r \in Readers : WF_vars(R_return(r))
  /\ WF_vars(S_reset)

\* The mutex does not starve a writer: a task does not wait for the exclusive
\* lock forever, however the readers' shared locks overlap.
MutexFairness == \A t \in Tasks : []<>(tpc[t] # "lock")

Fairness == ThreadFairness /\ MutexFairness

FairSpec == Spec /\ Fairness

\* The threads keep running, with nothing assumed of the mutex.
ThreadSpec == Spec /\ ThreadFairness

(* ------------------------ Config::load on its own ----------------------- *)
\* Length of the longest source text enumerated in full.
MaxText == 3

LoadAlphabet == {"1", "2", "x", ",", " "}

\* Every text over LoadAlphabet of at most MaxText characters.
Texts == UNION {[1..n -> LoadAlphabet] : n \in 0..MaxText}

\* "12, xx9, 7"
TextMixed == <<"1","2",","," ","x","x","9",","," ","7">>

\* "0x1f 010\n9z,0b11"
TextBases == <<"0","x","1","f"," ","0","1","0","\n","9","z",",","0","b","1","1">>

\* The decimal token of n.
RECURSIVE Decimal(_)
Decimal(n) ==
  IF n < 10 THEN <<Digits[n + 1]>>
            ELSE Decimal(n \div 10) \o <<Digits[(n % 10) + 1]>>

\* serialize(S): the identifiers of S as decimal tokens, the largest first,
\* separated by a comma and a blank.
RECURSIVE serialize(_)
serialize(S) ==
  IF S = {} THEN <<>>
  ELSE LET m    == CHOOSE x \in S : \A y \in S : y <= x
           rest == S \ {m}
       IN  Decimal(m) \o (IF rest = {} THEN <<>> ELSE <<",", " ">> \o serialize(rest))

\* The identifiers the serialized sets are made of.
SerialIds == {1, 2, 12}

\* The identifiers Config::contains is asked about.
UnitIds == {1, 2, 7, 9, 12}

\* The sources Config::load is run on.
LoadInputs ==
  {File(t) : t \in Texts \cup {TextMixed, TextBases}
                        \cup {serialize(S) : S \in SUBSET SerialIds}}
  \cup {Unreadable}

\* One Config, default-constructed, and the source it will be loaded from.
LoadInit ==
  /\ phase = "made"
  /\ hooks = FALSE
  /\ source \in LoadInputs
  /\ heap = <<NewConfig>>
  /\ srcAt = <<source>>
  /\ Plugin_Config = NULL
  /\ Plugin_Reloading = FALSE
  /\ mutex = [writer |-> 0, readers |-> {}]
  /\ rpc = [r \in Readers |-> "idle"]
  /\ handle = [r \in Readers |-> NULL]
  /\ mpc = [m \in MsgThreads |-> "idle"]
  /\ tpc = [t \in Tasks |-> "idle"]
  /\ cfg = [t \in Tasks |-> NULL]
  /\ spc = "idle"
  /\ delivered = 0
  /\ errlog = <<>>
  /\ pubLog = <<>>
  /\ answer = NoAnswer

\* Config::load(file) is called on the object.
U_load ==
  /\ phase = "made"
  /\ LET r == load(heap[1], source)
     IN  /\ heap' = [heap EXCEPT ![1] = r.cfg]
         /\ phase' = IF r.ok THEN "loaded" ELSE "failed"
  /\ UNCHANGED <<hooks, source, srcAt, Plugin_Config, pubLog>>
  /\ UNCHANGED <<Plugin_Reloading, mutex, errlog, spc, answer>>
  /\ UNCHANGED <<rpc, handle, taskVars, msgVars>>

\* Config::contains(id) is called on the loaded object.  A caller whose call
\* did not return makes no further call.
U_contains(id) ==
  /\ phase = "loaded"
  /\ answer.asked => answer.returns
  /\ \E out \in contains(heap[1], id) :
       answer' = [asked |-> TRUE, id |-> id,
                  returns |-> out.returns, value |-> out.value]
  /\ UNCHANGED <<bootVars, source, storeVars, Plugin_Reloading, mutex, errlog, spc>>
  /\ UNCHANGED <<rpc, handle, taskVars, msgVars>>

LoadNext ==
  \/ U_load
  \/ \E id \in UnitIds : U_contains(id)

LoadSpec == LoadInit /\ [][LoadNext]_vars

(* ------------------------------ properties ------------------------------ *)
\* The tags among Tags that CB_Msg takes for a reload trigger.
ReloadTags == {tag \in Tags : IsReloadMsg(tag)}

\* Reloads accepted and not yet over: handlers that won the exchange and have
\* not yet handed the task over, and tasks scheduled or running.
Accepted == {m \in MsgThreads : mpc[m] = "schedule"}

InFlight == {t \in Tasks : tpc[t] # "idle"}

ReloadInFlight == Accepted # {} \/ InFlight # {}

\* The object the latest returned publish installed.
LastPublished == pubLog[Len(pubLog)]

\* A reader's call to scoped_plugin_config returns in this step.
Returns(r) == rpc[r] = "locked" /\ rpc'[r] = "idle"

\* C1: at most one reload is accepted-or-running at any time, and one is
\* exactly when Plugin_Reloading is true.
C1_SingleFlight ==
  /\ Cardinality(Accepted) + Cardinality(InFlight) <= 1
  /\ Plugin_Reloading <=> ReloadInFlight

\* A trigger was rejected with a report while the one reload holds the lock.
C1_Witness == Len(errlog) >= 1 /\ \E t \in Tasks : tpc[t] = "assign"

\* C2: the slot, and every handle a reader holds, is empty or refers to a
\* Config on which the build (Config::load) has completed.
C2_SlotFullyBuilt ==
  /\ Plugin_Config # NULL => heap[Plugin_Config].built
  /\ \A r \in Readers : handle[r] # NULL => heap[handle[r]].built

\* C3: a membership query on a handle to a snapshot a reload published
\* returns, for every identifier, whether the source that reload had before
\* it lists the identifier (so 20 is reported only on handles fetched after
\* the reload of the new content was published).
C3_MembershipFollowsSource ==
  \A r \in Readers :
    (/\ handle[r] # NULL
     /\ \E i \in 1..Len(pubLog) : pubLog[i] = handle[r]
     /\ srcAt[handle[r]].readable)
    => \A id \in QueryIds : \A out \in contains(heap[handle[r]], id) :
         out.returns /\ (out.value <=> id \in Ids(srcAt[handle[r]]))

\* C4: no step of a reload task whose source was unreadable changes the slot.
C4_FailedReloadKeepsSlot ==
  [][\A t \in Tasks :
       (cfg[t] # NULL /\ ~srcAt[cfg[t]].readable /\ tpc'[t] # tpc[t])
       => Plugin_Config' = Plugin_Config]_vars

\* C5: a reload trigger handled while Plugin_Reloading is true leaves the
\* flag true, the slot, the heap, the tasks, the handlers and the mutex as
\* they were, and adds exactly the "reload still active" report.
C5_RejectedTriggerFrame ==
  [][\A m \in MsgThreads, tag \in ReloadTags :
       (Plugin_Reloading /\ mpc[m] = "idle" /\ M_recv(m, tag))
       => /\ Plugin_Reloading'
          /\ UNCHANGED <<Plugin_Config, heap, pubLog, tpc, cfg, mpc, mutex>>
          /\ errlog' = Append(errlog, ErrBusy)]_vars

\* A trigger was rejected while the accepted reload waits for a worker.
C5_Witness ==
  Plugin_Reloading /\ Len(errlog) = 1 /\ \E t \in Tasks : tpc[t] = "scheduled"

\* C6: a reload trigger handled while an accepted reload is not yet over is
\* not accepted and is reported once; a trigger handled while none is, is
\* accepted without a report.  So of two triggers handled before the first
\* accepted reload is over, one is accepted and one is reported.
C6_OneAcceptedOneReported ==
  [][\A m \in MsgThreads, tag \in ReloadTags :
       (delivered' # delivered /\ M_recv(m, tag))
       => IF ReloadInFlight
            THEN mpc' = mpc /\ errlog' = Append(errlog, ErrBusy)
            ELSE mpc'[m] = "schedule" /\ errlog' = errlog]_vars

\* The second trigger was reported before the first one's task was handed over.
C6_Witness == Len(errlog) = 1 /\ \E m \in MsgThreads : mpc[m] = "schedule"

\* C7: whenever Plugin_Reloading is true it is eventually false again.
C7_FlagEventuallyReset == Plugin_Reloading ~> ~Plugin_Reloading

\* A second reload was accepted after the first one was over, and is over too.
C7_Witness == Len(heap) >= 3 /\ ~Plugin_Reloading

\* C8 as stated: a call to scoped_plugin_config that returns after a publish
\* has returned yields the object of the latest publish.
C8_ReaderSeesLatestPublish ==
  [][\A r \in Readers :
       (Returns(r) /\ pubLog # <<>>) => handle'[r] = LastPublished]_vars

\* C8 as amended: ... or the empty handle, once CB_Shutdown has reset the
\* slot; never an object published earlier.
C8_ReaderSeesLatestOrEmpty ==
  [][\A r \in Readers :
       (Returns(r) /\ pubLog # <<>>)
       => \/ handle'[r] = LastPublished
          \/ handle'[r] = NULL /\ spc = "done"]_vars

\* A reader holds the object of the second publish.
C8_Witness ==
  \E r \in Readers :
    Len(pubLog) >= 2 /\ rpc[r] = "idle" /\ handle[r] = LastPublished

\* C9: an object the slot or a reader refers to keeps its contents, a handle
\* held keeps its referent, and a membership query on a handle has one
\* result, the same whenever it is asked.
C9_SnapshotImmutable ==
  /\ [][\A o \in DOMAIN heap :
          (o \in Referenced(Plugin_Config, handle, cfg) /\
           o \in Referenced(Plugin_Config', handle', cfg'))
          => heap'[o] = heap[o]]_vars
  /\ [][\A r \in Readers :
          (handle[r] # NULL /\ rpc'[r] = rpc[r] /\ handle'[r] # NULL)
          => handle'[r] = handle[r]]_vars
  /\ [](\A r \in Readers : handle[r] # NULL =>
          \A id \in QueryIds :
            \A o1, o2 \in contains(heap[handle[r]], id) :
              o1.returns /\ o1 = o2)

\* C10: initialization with the source unreadable leaves the slot empty and
\* the hooks unregistered.
C10_UnreadableStartIsFatal ==
  [][(phase = "boot" /\ phase' = "running" /\ ~source.readable)
     => (Plugin_Config' = NULL /\ ~hooks')]_vars

\* C11: once CB_Shutdown has run, every call to scoped_plugin_config that
\* returns yields the empty handle, whatever reload was in flight.
C11_EmptyAfterShutdown ==
  [][\A r \in Readers :
       (Returns(r) /\ spc = "done") => handle'[r] = NULL]_vars

\* The values of _data, as a set.
DataSet(c) == {c._data[i] : i \in 1..Len(c._data)}

\* C12: on a Config loaded from serialize(S), contains(x) returns, and returns
\* TRUE exactly for the x in S.
C12_ContainsIsMembership ==
  \A S \in SUBSET SerialIds :
    (phase = "loaded" /\ source = File(serialize(S)) /\ answer.asked)
    => (answer.returns /\ (answer.value <=> answer.id \in S))

\* C13: every call of Config::contains returns, on empty and non-empty _data.
C13_ContainsTerminates == answer.asked => answer.returns

\* C14: when a reload publishes a Config made from the source the Config in
\* the slot was made from, every membership query has one result on the new
\* Config, the result it has on the one that was in the slot.
C14_ReloadIdempotent ==
  [][\A t \in Tasks :
       (/\ tpc[t] = "assign" /\ tpc'[t] = "clear"
        /\ Plugin_Config # NULL
        /\ srcAt[Plugin_Config].readable
        /\ srcAt[cfg[t]] = srcAt[Plugin_Config])
       => \A id \in QueryIds :
            \A new \in contains(heap[cfg[t]], id) :
              \A old \in contains(heap[Plugin_Config], id) :
                new.returns /\ old.returns /\ new.value = old.value]_vars

\* A Config is made in this step.
Makes == Len(heap') > Len(heap)

\* No Config that stays alive changes its contents in this step.
KeepsContents ==
  \A o \in DOMAIN heap : heap'[o].alive => heap'[o] = heap[o]

\* C15: a step that makes a Config takes and holds no lock; a task holds the
\* exclusive lock only at the assignment, with its Config already made, and
\* its step under the lock assigns the slot and releases the lock; a reader's
\* step makes and changes no Config.
C15_NoBuildUnderLock ==
  /\ [][Makes => /\ mutex' = mutex
                 /\ \A t \in Tasks : tpc'[t] # tpc[t] => mutex.writer # t]_vars
  /\ [][\A t \in Tasks :
          mutex.writer = t
          => /\ tpc[t] = "assign" /\ cfg[t] # NULL
             /\ tpc'[t] # tpc[t]
                => /\ mutex'.writer = 0
                   /\ Plugin_Config' = cfg[t]
                   /\ ~Makes /\ KeepsContents]_vars
  /\ [][\A r \in Readers :
          rpc'[r] # rpc[r] => ~Makes /\ KeepsContents]_vars

\* A task has made its Config and waits for the lock a reader holds.
C15_Witness ==
  \E t \in Tasks, r \in Readers :
    tpc[t] = "lock" /\ cfg[t] # NULL /\ heap[cfg[t]].alive /\ r \in mutex.readers

\* The places of a text where a token starts: a character that is no
\* delimiter, at the start of the text or after a delimiter.
TokenStarts(text) ==
  {i \in 1..Len(text) : ~is_delim(text[i]) /\ (i = 1 \/ is_delim(text[i - 1]))}

\* The token that starts at place i: it runs up to the next delimiter.
TokenAt(text, i) ==
  SubSeq(text, i,
         CHOOSE j \in i..Len(text) :
           /\ \A k \in i..j : ~is_delim(text[k])
           /\ j = Len(text) \/ is_delim(text[j + 1]))

\* The token parses in full as an unsigned integer.
FullyParsed(token) == svtou(token).used = Len(token)

\* How often v occurs in a sequence.
Count(seq, v) == Cardinality({i \in 1..Len(seq) : seq[i] = v})

\* C16: after a successful load, _data holds the value of every token that
\* parses in full, as often as the source holds such a token, and nothing
\* else; for "12, xx9, 7" it holds 12 and 7 and not 9.
C16_MalformedDiscarded ==
  phase = "loaded" =>
    LET text   == source.text
        d      == heap[1]._data
        good   == {i \in TokenStarts(text) : FullyParsed(TokenAt(text, i))}
        val(i) == svtou(TokenAt(text, i)).n
    IN  /\ Len(d) = Cardinality(good)
        /\ \A i \in good : Count(d, val(i)) = Cardinality({j \in good : val(j) = val(i)})
        /\ text = TextMixed =>
             12 \in DataSet(heap[1]) /\ 7 \in DataSet(heap[1]) /\ 9 \notin DataSet(heap[1])

\* "12, xx9, 7" has been loaded: 12 and 7 were kept, the token xx9 was dropped.
C16_Witness ==
  phase = "loaded" /\ source.text = TextMixed /\ heap[1]._data = <<7, 12>>

\* C18 as stated: after a successful load _data is strictly ascending.
C18_StrictlyAscending ==
  phase = "loaded" =>
    \A i \in 1..(Len(heap[1]._data) - 1) : heap[1]._data[i] < heap[1]._data[i + 1]

\* C18 as amended: after a successful load _data is ascending, and an
\* identifier the source repeats is held once for every time it was read.
C18_Ascending ==
  phase = "loaded" =>
    LET d == heap[1]._data
    IN  /\ \A i \in 1..(Len(d) - 1) : d[i] <= d[i + 1]
        /\ Len(d) = Cardinality({i \in TokenStarts(source.text) :
                                   FullyParsed(TokenAt(source.text, i))})

\* A source that repeats an identifier has been loaded: _data repeats it.
C18_Witness ==
  /\ phase = "loaded"
  /\ source.text = <<"1", ",", "1">>
  /\ heap[1]._data = <<1, 1>>

\* The text with every upper-case letter replaced by its lower-case letter.
LowerText(text) == [i \in 1..Len(text) |-> ToLower(text[i])]

\* The tag is "id_check.reload", in whatever case its letters are.
IsExactReloadTag(tag) == LowerText(tag) = PLUGIN_MSG_PREFIX \o RELOAD_TAG

\* The tags delivered that are exactly the reload tag, and the others.
ExactTags == {tag \in Tags : IsExactReloadTag(tag)}

OtherTags == Tags \ ExactTags

\* C17: handling a message whose tag is not exactly the reload tag leaves the
\* flag, the slot, the Configs, the tasks, the handlers, the reports and the
\* mutex as they were; and the flag is only ever set by handling a message
\* with exactly the reload tag.
C17_OnlyReloadTag ==
  /\ [][\A m \in MsgThreads, tag \in OtherTags :
          (delivered' # delivered /\ mpc[m] = "idle" /\ M_recv(m, tag))
          => UNCHANGED <<Plugin_Reloading, Plugin_Config, heap, pubLog,
                         tpc, cfg, mpc, errlog, mutex>>]_vars
  /\ [][(~Plugin_Reloading /\ Plugin_Reloading')
        => \E m \in MsgThreads, tag \in ExactTags : M_recv(m, tag)]_vars

\* Every message delivered had another tag, and no reload was ever started.
C17_Witness ==
  /\ phase = "running" /\ delivered = MaxMsgs
  /\ ~Plugin_Reloading /\ pubLog = <<>> /\ errlog = <<>> /\ Len(heap) = 1

\* A handler wins the exchange in this step: a reload trigger is accepted.
Accepts == \E m \in MsgThreads : mpc[m] = "idle" /\ mpc'[m] = "schedule"

\* C19 as stated: when a trigger is accepted after an earlier reload, that
\* reload's Config is the one in the slot.
C19_PublishBeforeAccept ==
  [][(Accepts /\ pubLog # <<>>) => Plugin_Config = LastPublished]_vars

\* C19 as amended: when a trigger is accepted, no task is under way, every
\* Config an earlier reload made has been published, and the latest of them
\* is the one in the slot, unless CB_Shutdown has emptied the slot since; and
\* the Configs are published one at a time, in the order they were made.
C19_PublishBeforeAcceptOrEmpty ==
  /\ [][Accepts
        => /\ \A t \in Tasks : tpc[t] = "idle"
           /\ Len(pubLog) = Len(heap) - 1
           /\ pubLog # <<>>
              => \/ Plugin_Config = LastPublished
                 \/ Plugin_Config = NULL /\ spc = "done"]_vars
  /\ [][pubLog' # pubLog
        => /\ Len(pubLog') = Len(pubLog) + 1
           /\ SubSeq(pubLog', 1, Len(pubLog)) = pubLog
           /\ \A i \in 1..Len(pubLog) : pubLog[i] < pubLog'[Len(pubLog')]
           /\ Cardinality({t \in Tasks : tpc[t] = "assign"}) = 1]_vars

\* A second trigger was accepted with the first reload's Config in the slot.
C19_Witness ==
  /\ \E m \in MsgThreads : mpc[m] = "schedule"
  /\ Len(pubLog) = 1 /\ Plugin_Config = LastPublished

\* Whoever holds Plugin_Config_Mutex is at the step that releases it: a task
\* at the assignment, CB_Shutdown at the reset, a reader at its return; and
\* the exclusive lock excludes the shared ones.
HoldersAtRelease ==
  /\ \A t \in Tasks : mutex.writer = t => tpc[t] = "assign"
  /\ mutex.writer = ShutdownHolder => spc = "reset"
  /\ \A r \in Readers : r \in mutex.readers <=> rpc[r] = "locked"
  /\ mutex.writer # 0 => mutex.readers = {}
  /\ mutex.writer \in {0, ShutdownHolder} \cup Tasks

====
